---- MODULE Spec2Model ----
(* Model of ai_photo_evaluator.py: AIPhotoEvaluator.evaluate_folder,        *)
(* group_similar_photos and are_photos_similar.  A photo is identified by   *)
(* its path (a number in folder-iteration order); a record is the dict the  *)
(* scorer returned plus 'file' and 'path', and the two fields the grouper   *)
(* adds (similar_shots = 0 and alternatives = <<>> stand for "key absent"). *)
EXTENDS Integers, Sequences, FiniteSets, TLC

\* ---------------------------------------------------------------- bounds
SmallPhotos == 3      \* folders up to this size: any scores, any oracle answer
MaxPhotos == 12       \* largest folder (sizes MaxPhotos-1 and MaxPhotos, burst oracle)
MaxScore == 2         \* scores range over 0..MaxScore (0 = evaluation failed)
MaxResponses == 2     \* image files in a run of the scoring loop

\* ------------------------------------------------------ program constants
BudgetFactor == 5     \* max_comparisons = len(valid_results) * 5
MaxGroupSize == 10    \* if len(current_group) >= 10: break

VARIABLES
    detect_duplicates,  \* self.detect_duplicates
    use_openai,         \* self.use_openai
    entry,              \* which public method the caller invoked
    scored,             \* the records evaluate_photo produced, in iteration order
    oracle,             \* how the similarity service answers in this run
    results,            \* the working list (evaluate_folder's / the callee's `results`)
    valid_results,      \* group_similar_photos: valid_results
    failed_results,     \* group_similar_photos: failed_results
    groups,             \* group_similar_photos: groups
    processed,          \* group_similar_photos: processed (set of paths)
    comparison_count,   \* group_similar_photos: comparison_count
    max_comparisons,    \* group_similar_photos: max_comparisons
    i, j,               \* loop indices (1-based positions in valid_results)
    current_group,      \* group_similar_photos: current_group
    pc,                 \* position of the (single) thread of control
    given,              \* history: the list group_similar_photos was called with
    oracle_calls,       \* history: number of are_photos_similar calls that ran
    queries,            \* history: <<path1, path2>> of every are_photos_similar call
    sim_true,           \* history: the queried pairs that were answered True
    seeds,              \* history: paths that started a group
    last_outcome,       \* history: what the service did in the latest comparison
    responses           \* what the scoring service answered, one per image file

vars == <<detect_duplicates, use_openai, entry, scored, oracle, results,
          valid_results, failed_results, groups, processed, comparison_count,
          max_comparisons, i, j, current_group, pc, given, oracle_calls,
          queries, sim_true, seeds, last_outcome, responses>>

\* ------------------------------------------------------------- records
\* evaluate_photo: result['file'] = os.path.basename(image_path)
File(path) == 100 + path

Record(path, score) ==
    [path |-> path, file |-> File(path), score |-> score,
     similar_shots |-> 0, alternatives |-> <<>>]

Range(s) == {s[k] : k \in 1..Len(s)}
Paths(s) == {s[k].path : k \in 1..Len(s)}

\* Mutation: equal scores are placed before the records already sorted.
RECURSIVE InsertByScore_TiesFirst(_, _)
InsertByScore_TiesFirst(r, s) ==
    IF s = <<>> THEN <<r>>
    ELSE IF Head(s).score > r.score
         THEN <<Head(s)>> \o InsertByScore_TiesFirst(r, Tail(s))
         ELSE <<r>> \o s

\* list.sort(key=score, reverse=True): stable, score descending.
RECURSIVE InsertByScore(_, _)
InsertByScore(r, s) ==
    IF s = <<>> THEN <<r>>
    ELSE IF Head(s).score >= r.score
         THEN <<Head(s)>> \o InsertByScore(r, Tail(s))
         ELSE <<r>> \o s

RECURSIVE SortByScoreFrom(_, _)
SortByScoreFrom(s, acc) ==
    IF s = <<>> THEN acc
    ELSE SortByScoreFrom(Tail(s), InsertByScore(Head(s), acc))

SortByScore(s) == SortByScoreFrom(s, <<>>)

IsValid(r) == r.score > 0
IsFailed(r) == r.score = 0

\* ------------------------------------------------------------ the oracle
Outcomes == {"SIMILAR", "SIMILAR_EXTRA", "DIFFERENT", "BOTH_WORDS",
             "HTTP_ERROR", "EXCEPTION", "UNREADABLE"}
ErrorOutcomes == {"HTTP_ERROR", "EXCEPTION", "UNREADABLE"}

\* Mutation: a non-success status is taken for a match.
are_photos_similar_TrustsErrors(outcome, openai) ==
    IF outcome = "HTTP_ERROR" THEN TRUE
    ELSE IF outcome \in ErrorOutcomes THEN FALSE
    ELSE IF openai THEN outcome = "SIMILAR"
    ELSE outcome \in {"SIMILAR", "SIMILAR_EXTRA"}

\* are_photos_similar, from what the service did to the boolean it returns.
are_photos_similar(outcome, openai) ==
    IF outcome \in ErrorOutcomes THEN FALSE
    ELSE IF openai THEN outcome = "SIMILAR"
    ELSE outcome \in {"SIMILAR", "SIMILAR_EXTRA"}

\* The outcomes the service can produce for the pair (p1, p2) in this run.
OracleOutcomes(p1, p2) ==
    IF oracle.kind = "free" THEN Outcomes
    ELSE IF p1 \in oracle.lo..oracle.hi /\ p2 \in oracle.lo..oracle.hi
         THEN {"SIMILAR"}
         ELSE IF oracle.fault THEN {"EXCEPTION"} ELSE {"DIFFERENT"}

\* ---------------------------------------------------------------- Init
SmallInputs ==
    UNION { { [scored |-> [k \in 1..n |-> Record(k, sc[k])],
               oracle |-> [kind |-> "free"]] : sc \in [1..n -> 0..MaxScore] } :
            n \in 0..SmallPhotos }

LargeScore(k, shift) == 1 + ((k + shift) % MaxScore)

LargeInputs ==
    { [scored |-> [k \in 1..x[1] |-> Record(k, LargeScore(k, x[2]))],
       oracle |-> [kind |-> "burst", lo |-> x[3], hi |-> x[4], fault |-> x[5]]] :
        x \in { y \in (MaxPhotos-1..MaxPhotos) \X (0..MaxScore-1) \X (1..MaxPhotos)
                       \X (0..MaxPhotos) \X BOOLEAN :
                  y[3] <= y[4] + 1 /\ y[4] <= y[1] /\ (y[4] < y[3] => y[3] = 1) } }

Init ==
    /\ detect_duplicates \in BOOLEAN
    /\ use_openai \in BOOLEAN
    /\ entry \in {"evaluate_folder", "group_similar_photos"}
    /\ \E inp \in SmallInputs \cup LargeInputs :
          /\ scored = inp.scored
          /\ oracle = inp.oracle
    /\ results = <<>>
    /\ valid_results = <<>>
    /\ failed_results = <<>>
    /\ groups = <<>>
    /\ processed = {}
    /\ comparison_count = 0
    /\ max_comparisons = 0
    /\ i = 0
    /\ j = 0
    /\ current_group = <<>>
    /\ pc = "start"
    /\ given = <<>>
    /\ oracle_calls = 0
    /\ queries = {}
    /\ sim_true = {}
    /\ seeds = {}
    /\ last_outcome = "none"
    /\ responses = <<>>

\* ------------------------------------------------------- evaluate_folder
\* evaluate_folder, lines 422-441 up to the call of group_similar_photos:
\* keep a result only if its score is > 0, sort by score, and either call
\* the grouper (detection on) or return the sorted list.
EvaluateFolder ==
    /\ pc = "start"
    /\ entry = "evaluate_folder"
    /\ LET kept == SortByScore(SelectSeq(scored, IsValid))
       IN  /\ results' = kept
           /\ given' = IF detect_duplicates THEN kept ELSE given
    /\ pc' = IF detect_duplicates THEN "group_entry" ELSE "done"
    /\ UNCHANGED <<responses, detect_duplicates, use_openai, entry, scored, oracle,
                   valid_results, failed_results, groups, processed,
                   comparison_count, max_comparisons, i, j, current_group,
                   oracle_calls, queries, sim_true, seeds, last_outcome>>

\* A caller that hands its scored records straight to group_similar_photos.
CallGroupSimilarPhotos ==
    /\ pc = "start"
    /\ entry = "group_similar_photos"
    /\ results' = scored
    /\ given' = scored
    /\ pc' = "group_entry"
    /\ UNCHANGED <<responses, detect_duplicates, use_openai, entry, scored, oracle,
                   valid_results, failed_results, groups, processed,
                   comparison_count, max_comparisons, i, j, current_group,
                   oracle_calls, queries, sim_true, seeds, last_outcome>>

\* -------------------------------------------------- group_similar_photos
\* Mutation: the second early return (too few valid photos) is missing.
GroupingApplies_AnyScore ==
    /\ detect_duplicates
    /\ Len(results) >= 2

GroupingApplies ==
    /\ detect_duplicates
    /\ Len(results) >= 2
    /\ Len(SelectSeq(results, IsValid)) >= 2

\* lines 299-300 and 308-310: the early returns (results is returned as is).
GroupNoOp ==
    /\ pc = "group_entry"
    /\ ~GroupingApplies
    /\ pc' = "returned"
    /\ UNCHANGED <<responses, detect_duplicates, use_openai, entry, scored, oracle, results,
                   valid_results, failed_results, groups, processed,
                   comparison_count, max_comparisons, i, j, current_group,
                   given, oracle_calls, queries, sim_true, seeds, last_outcome>>

\* lines 304-315: split valid / failed and initialise the loop state.
GroupBegin ==
    /\ pc = "group_entry"
    /\ GroupingApplies
    /\ valid_results' = SelectSeq(results, IsValid)
    /\ failed_results' = SelectSeq(results, IsFailed)
    /\ groups' = <<>>
    /\ processed' = {}
    /\ comparison_count' = 0
    /\ max_comparisons' = Len(SelectSeq(results, IsValid)) * BudgetFactor
    /\ i' = 1
    /\ pc' = "outer"
    /\ UNCHANGED <<responses, detect_duplicates, use_openai, entry, scored, oracle, results,
                   j, current_group, given, oracle_calls, queries, sim_true,
                   seeds, last_outcome>>

\* lines 318-319: the record at position i is already in a group.
OuterSkip ==
    /\ pc = "outer"
    /\ i <= Len(valid_results)
    /\ valid_results[i].path \in processed
    /\ i' = i + 1
    /\ UNCHANGED <<responses, detect_duplicates, use_openai, entry, scored, oracle, results,
                   valid_results, failed_results, groups, processed,
                   comparison_count, max_comparisons, j, current_group, pc,
                   given, oracle_calls, queries, sim_true, seeds, last_outcome>>

\* Mutation: the scan of a new seed starts one record too far.
SeedStart_SkipsNext ==
    /\ pc = "outer"
    /\ i <= Len(valid_results)
    /\ valid_results[i].path \notin processed
    /\ current_group' = <<valid_results[i]>>
    /\ processed' = processed \cup {valid_results[i].path}
    /\ seeds' = seeds \cup {valid_results[i].path}
    /\ j' = i + 2
    /\ pc' = "inner"
    /\ UNCHANGED <<responses, detect_duplicates, use_openai, entry, scored, oracle, results,
                   valid_results, failed_results, groups, comparison_count,
                   max_comparisons, i, given, oracle_calls, queries, sim_true,
                   last_outcome>>

\* lines 321-326: start a new group with the record at position i.
SeedStart ==
    /\ pc = "outer"
    /\ i <= Len(valid_results)
    /\ valid_results[i].path \notin processed
    /\ current_group' = <<valid_results[i]>>
    /\ processed' = processed \cup {valid_results[i].path}
    /\ seeds' = seeds \cup {valid_results[i].path}
    /\ j' = i + 1
    /\ pc' = "inner"
    /\ UNCHANGED <<responses, detect_duplicates, use_openai, entry, scored, oracle, results,
                   valid_results, failed_results, groups, comparison_count,
                   max_comparisons, i, given, oracle_calls, queries, sim_true,
                   last_outcome>>

\* lines 327-328: the candidate at position j is already in a group.
InnerSkip ==
    /\ pc = "inner"
    /\ j <= Len(valid_results)
    /\ valid_results[j].path \in processed
    /\ j' = j + 1
    /\ UNCHANGED <<responses, detect_duplicates, use_openai, entry, scored, oracle, results,
                   valid_results, failed_results, groups, processed,
                   comparison_count, max_comparisons, i, current_group, pc,
                   given, oracle_calls, queries, sim_true, seeds, last_outcome>>

\* Mutation: the budget test lets one more comparison through.
BudgetExceeded_Late(count) == count > max_comparisons + 1

\* The budget test of line 332, on the counter as incremented by line 331.
BudgetExceeded(count) == count > max_comparisons

\* Mutation: the cap test is off by one.
GroupFull_OffByOne(group) == Len(group) > MaxGroupSize

\* The member cap test of line 337.
GroupFull(group) == Len(group) >= MaxGroupSize

\* lines 346-350: the inner loop is over (exhausted or left by break).
CloseGroup ==
    /\ groups' = Append(groups, current_group)
    /\ i' = i + 1
    /\ pc' = "outer"

\* line 326 exhausted: no candidate is left for this seed.
InnerEnd ==
    /\ pc = "inner"
    /\ j > Len(valid_results)
    /\ CloseGroup
    /\ UNCHANGED <<responses, detect_duplicates, use_openai, entry, scored, oracle, results,
                   valid_results, failed_results, processed, comparison_count,
                   max_comparisons, j, current_group, given, oracle_calls,
                   queries, sim_true, seeds, last_outcome>>

\* lines 331-334: the counter passes the budget, the scan of this seed ends.
BudgetBreak ==
    /\ pc = "inner"
    /\ j <= Len(valid_results)
    /\ valid_results[j].path \notin processed
    /\ BudgetExceeded(comparison_count + 1)
    /\ comparison_count' = comparison_count + 1
    /\ CloseGroup
    /\ UNCHANGED <<responses, detect_duplicates, use_openai, entry, scored, oracle, results,
                   valid_results, failed_results, processed, max_comparisons, j,
                   current_group, given, oracle_calls, queries, sim_true, seeds,
                   last_outcome>>

\* lines 331-339: the group already has 10 members, the scan of this seed ends.
CapBreak ==
    /\ pc = "inner"
    /\ j <= Len(valid_results)
    /\ valid_results[j].path \notin processed
    /\ ~BudgetExceeded(comparison_count + 1)
    /\ GroupFull(current_group)
    /\ comparison_count' = comparison_count + 1
    /\ CloseGroup
    /\ UNCHANGED <<responses, detect_duplicates, use_openai, entry, scored, oracle, results,
                   valid_results, failed_results, processed, max_comparisons, j,
                   current_group, given, oracle_calls, queries, sim_true, seeds,
                   last_outcome>>

\* Mutation: the candidate is compared with the member added last.
CompareWith_LastMember(group) == group[Len(group)]

\* The record the candidate is compared with: result1, the seed (line 341).
CompareWith(group) == group[1]

\* Mutations: the candidate is not appended / not marked processed.
AddMember_Drops(group, r) == group
MarkProcessed_Forgets(done, r) == done

\* What lines 342-343 do to current_group / processed on a True answer.
AddMember(group, r) == Append(group, r)
MarkProcessed(done, r) == done \cup {r.path}

\* lines 331-344: one comparison of the seed with the candidate at j.
Compare ==
    /\ pc = "inner"
    /\ j <= Len(valid_results)
    /\ valid_results[j].path \notin processed
    /\ ~BudgetExceeded(comparison_count + 1)
    /\ ~GroupFull(current_group)
    /\ comparison_count' = comparison_count + 1
    /\ LET a == CompareWith(current_group)
           b == valid_results[j]
       IN \E outcome \in OracleOutcomes(a.path, b.path) :
            /\ last_outcome' = outcome
            /\ oracle_calls' = oracle_calls + 1
            /\ queries' = queries \cup {<<a.path, b.path>>}
            /\ IF are_photos_similar(outcome, use_openai)
               THEN /\ current_group' = AddMember(current_group, b)
                    /\ processed' = MarkProcessed(processed, b)
                    /\ sim_true' = sim_true \cup {<<a.path, b.path>>}
               ELSE UNCHANGED <<current_group, processed, sim_true>>
    /\ j' = j + 1
    /\ UNCHANGED <<responses, detect_duplicates, use_openai, entry, scored, oracle, results,
                   valid_results, failed_results, groups, max_comparisons, i,
                   pc, given, seeds>>

\* lines 352-355: records not in processed become groups of their own.
WithLeftovers(gs, valid, done) ==
    LET left == SelectSeq(valid, LAMBDA r : r.path \notin done)
    IN  gs \o [k \in 1..Len(left) |-> <<left[k]>>]

\* lines 365-368 / 371-372: sort the group, mark and return its first record.
SortGroup(group) == IF Len(group) > 1 THEN SortByScore(group) ELSE group

\* Mutation: alternatives lists the whole group, the kept record included.
Best_ListsAll(group) ==
    LET g == SortGroup(group)
    IN  IF Len(group) > 1
        THEN [g[1] EXCEPT !.similar_shots = Len(g),
                          !.alternatives = [k \in 1..Len(g) |-> g[k].file]]
        ELSE [g[1] EXCEPT !.similar_shots = 1]

Best(group) ==
    LET g == SortGroup(group)
    IN  IF Len(group) > 1
        THEN [g[1] EXCEPT !.similar_shots = Len(g),
                          !.alternatives = [k \in 1..Len(g)-1 |-> g[k+1].file]]
        ELSE [g[1] EXCEPT !.similar_shots = 1]

\* lines 352-385: close the grouping, reduce each group, append the failed.
Reduce ==
    /\ pc = "outer"
    /\ i > Len(valid_results)
    /\ LET all == WithLeftovers(groups, valid_results, processed)
       IN  /\ groups' = [g \in 1..Len(all) |->
                            LET s == SortGroup(all[g])
                            IN  [s EXCEPT ![1] = Best(all[g])]]
           /\ results' = [g \in 1..Len(all) |-> Best(all[g])] \o failed_results
    /\ pc' = "returned"
    /\ UNCHANGED <<responses, detect_duplicates, use_openai, entry, scored, oracle,
                   valid_results, failed_results, processed, comparison_count,
                   max_comparisons, i, j, current_group, given, oracle_calls,
                   queries, sim_true, seeds, last_outcome>>

\* evaluate_folder, lines 439-441: take the grouper's list and re-sort it.
ReSort ==
    /\ pc = "returned"
    /\ entry = "evaluate_folder"
    /\ results' = SortByScore(results)
    /\ pc' = "done"
    /\ UNCHANGED <<responses, detect_duplicates, use_openai, entry, scored, oracle,
                   valid_results, failed_results, groups, processed,
                   comparison_count, max_comparisons, i, j, current_group,
                   given, oracle_calls, queries, sim_true, seeds, last_outcome>>

\* The direct caller receives the grouper's list as it is.
ReturnToCaller ==
    /\ pc = "returned"
    /\ entry = "group_similar_photos"
    /\ pc' = "done"
    /\ UNCHANGED <<responses, detect_duplicates, use_openai, entry, scored, oracle, results,
                   valid_results, failed_results, groups, processed,
                   comparison_count, max_comparisons, i, j, current_group,
                   given, oracle_calls, queries, sim_true, seeds, last_outcome>>

Next ==
    \/ EvaluateFolder
    \/ CallGroupSimilarPhotos
    \/ GroupNoOp
    \/ GroupBegin
    \/ OuterSkip
    \/ SeedStart
    \/ InnerSkip
    \/ InnerEnd
    \/ BudgetBreak
    \/ CapBreak
    \/ Compare
    \/ Reduce
    \/ ReSort
    \/ ReturnToCaller

Spec == Init /\ [][Next]_vars

\* The runs in which the scorer succeeded on every photo.
InitScored == Init /\ \A k \in 1..Len(scored) : scored[k].score > 0
SpecScored == InitScored /\ [][Next]_vars

\* ------------------------------------------------------------- scoring
DefaultScore == 50    \* the score given when no score can be read from the answer
MinScore == 1         \* min(100, max(1, ...)) in evaluate_with_ollama
TopScore == 100

\* The numbers a scoring answer may carry.
ScoreNumbers == {0, 1, 50, 100, 250}

\* What the scoring service can do for one image, per backend.  With status
\* 200: the body is not JSON; (OpenAI) the body lacks choices/message/content,
\* the content has no braces, the braces do not hold valid JSON, the JSON
\* object has no "score", its "score" is not a number, or it has a number;
\* (Ollama) the body has no "response", "response" is not text, the text lacks
\* the word "score", has the word but no digits, or has the word and a number.
FailureResponses ==
    {[kind |-> k, n |-> 0] : k \in {"TIMEOUT", "CONNECTION_ERROR", "HTTP_ERROR"}}

OpenAIResponses ==
    FailureResponses
    \cup {[kind |-> k, n |-> 0] : k \in {"BODY_NOT_JSON", "NO_CHOICES", "NO_BRACES",
                                         "BAD_JSON", "NO_SCORE_KEY", "SCORE_NOT_NUMBER"}}
    \cup {[kind |-> "JSON_SCORE", n |-> n] : n \in ScoreNumbers}

OllamaResponses ==
    FailureResponses
    \cup {[kind |-> k, n |-> 0] : k \in {"BODY_NOT_JSON", "NO_RESPONSE_FIELD",
                                         "RESPONSE_NOT_TEXT", "NO_SCORE_WORD",
                                         "SCORE_WORD_NO_NUMBER"}}
    \cup {[kind |-> "SCORE_WORD_NUMBER", n |-> n] : n \in ScoreNumbers}

\* The dict a backend returns: score_kind tells whether 'score' is a number,
\* is absent, or is some other JSON value; reasoning names where the text
\* of 'reasoning' comes from.
Scored(kind, score, reasoning) ==
    [score_kind |-> kind, score |-> score, reasoning |-> reasoning]

\* evaluate_with_openai, lines 99-121.
evaluate_with_openai(resp) ==
    CASE resp.kind \in {"TIMEOUT", "CONNECTION_ERROR"} -> Scored("int", 0, "exception_text")
      [] resp.kind = "HTTP_ERROR"       -> Scored("int", 0, "api_error")
      [] resp.kind \in {"BODY_NOT_JSON", "NO_CHOICES"} -> Scored("int", 0, "exception_text")
      [] resp.kind = "NO_BRACES"        -> Scored("int", DefaultScore, "could_not_parse")
      [] resp.kind = "BAD_JSON"         -> Scored("int", 0, "exception_text")
      [] resp.kind = "NO_SCORE_KEY"     -> Scored("missing", 0, "from_model")
      [] resp.kind = "SCORE_NOT_NUMBER" -> Scored("other", 0, "from_model")
      [] resp.kind = "JSON_SCORE"       -> Scored("int", resp.n, "from_model")

\* min(100, max(1, int(...))), line 180.
ClampScore(n) ==
    LET low == IF n > MinScore THEN n ELSE MinScore
    IN  IF low < TopScore THEN low ELSE TopScore

\* evaluate_with_ollama, lines 158-194.
evaluate_with_ollama(resp) ==
    CASE resp.kind = "CONNECTION_ERROR" -> Scored("int", 0, "ollama_not_running")
      [] resp.kind = "TIMEOUT"          -> Scored("int", 0, "exception_text")
      [] resp.kind = "HTTP_ERROR"       -> Scored("int", 0, "ollama_error")
      [] resp.kind \in {"BODY_NOT_JSON", "RESPONSE_NOT_TEXT"} -> Scored("int", 0, "exception_text")
      [] resp.kind = "NO_RESPONSE_FIELD" -> Scored("int", DefaultScore, "empty_text")
      [] resp.kind \in {"NO_SCORE_WORD", "SCORE_WORD_NO_NUMBER"} ->
            Scored("int", DefaultScore, "response_text")
      [] resp.kind = "SCORE_WORD_NUMBER" -> Scored("int", ClampScore(resp.n), "response_text")

\* evaluate_photo, lines 394-401: pick the backend, add 'file' and 'path'.
evaluate_photo(path, resp) ==
    LET result == IF use_openai THEN evaluate_with_openai(resp)
                  ELSE evaluate_with_ollama(resp)
    IN  [path |-> path, file |-> File(path), score_kind |-> result.score_kind,
         score |-> result.score, reasoning |-> result.reasoning,
         similar_shots |-> 0, alternatives |-> <<>>]

\* line 426: result.get('score', 0) > 0, for a score that is a number or absent.
KeptByFolder(result) == result.score_kind = "int" /\ result.score > 0

InitScoring ==
    /\ detect_duplicates \in BOOLEAN
    /\ use_openai \in BOOLEAN
    /\ entry = "evaluate_folder"
    /\ \E n \in 0..MaxResponses :
          responses \in [1..n -> IF use_openai THEN OpenAIResponses ELSE OllamaResponses]
    /\ scored = <<>>
    /\ oracle = [kind |-> "free"]
    /\ results = <<>>
    /\ valid_results = <<>>
    /\ failed_results = <<>>
    /\ groups = <<>>
    /\ processed = {}
    /\ comparison_count = 0
    /\ max_comparisons = 0
    /\ i = 1
    /\ j = 0
    /\ current_group = <<>>
    /\ pc = "scoring"
    /\ given = <<>>
    /\ oracle_calls = 0
    /\ queries = {}
    /\ sim_true = {}
    /\ seeds = {}
    /\ last_outcome = "none"

\* evaluate_folder, lines 423-432: one iteration of the scoring loop.
EvaluateOne ==
    /\ pc = "scoring"
    /\ i <= Len(responses)
    /\ LET result == evaluate_photo(i, responses[i])
       IN  /\ result.score_kind # "other"
           /\ scored' = Append(scored, result)
           /\ results' = IF KeptByFolder(result) THEN Append(results, result) ELSE results
    /\ i' = i + 1
    /\ UNCHANGED <<responses, detect_duplicates, use_openai, entry, oracle,
                   valid_results, failed_results, groups, processed,
                   comparison_count, max_comparisons, j, current_group, pc,
                   given, oracle_calls, queries, sim_true, seeds, last_outcome>>

\* line 426 on a 'score' that is not a number: the comparison with 0 raises
\* TypeError, which nothing in evaluate_folder catches.
EvaluateRaises ==
    /\ pc = "scoring"
    /\ i <= Len(responses)
    /\ evaluate_photo(i, responses[i]).score_kind = "other"
    /\ scored' = Append(scored, evaluate_photo(i, responses[i]))
    /\ pc' = "raised"
    /\ UNCHANGED <<responses, detect_duplicates, use_openai, entry, oracle, results,
                   valid_results, failed_results, groups, processed,
                   comparison_count, max_comparisons, i, j, current_group,
                   given, oracle_calls, queries, sim_true, seeds, last_outcome>>

\* line 435: every image is scored, the kept results are sorted by score.
SortScored ==
    /\ pc = "scoring"
    /\ i > Len(responses)
    /\ results' = SortByScore(results)
    /\ pc' = "sorted"
    /\ UNCHANGED <<responses, detect_duplicates, use_openai, entry, scored, oracle,
                   valid_results, failed_results, groups, processed,
                   comparison_count, max_comparisons, i, j, current_group,
                   given, oracle_calls, queries, sim_true, seeds, last_outcome>>

NextScoring ==
    \/ EvaluateOne
    \/ EvaluateRaises
    \/ SortScored

SpecScoring == InitScoring /\ [][NextScoring]_vars

TypeOK ==
    /\ pc \in {"start", "group_entry", "outer", "inner", "returned", "done",
              "scoring", "raised", "sorted"}
    /\ comparison_count \in Nat
    /\ oracle_calls \in Nat

\* ======================================================== claim formulas
Done == pc = "done"
Returned == pc \in {"returned", "done"}
\* group_similar_photos got past its early returns (GroupBegin ran).
GroupingRan == valid_results # <<>>
GroupsBuilt == GroupingRan /\ Returned

\* Position of a path in the scan order of the grouper.
Pos(p) == CHOOSE k \in 1..Len(valid_results) : valid_results[k].path = p
ByPath(p) == CHOOSE r \in Range(scored) : r.path = p
ByFile(f) == CHOOSE r \in Range(scored) : r.file = f
Entries(p) == {k \in 1..Len(results) : results[k].path = p}
Mentions(f) == {x \in (1..Len(results)) \X (1..MaxPhotos + 1) :
                  /\ x[2] <= Len(results[x[1]].alternatives)
                  /\ results[x[1]].alternatives[x[2]] = f}
GroupIndexes == 1..Len(groups)
\* The record of the output that stands for group g.
Kept(g) == {k \in 1..Len(results) : results[k].path \in Paths(groups[g])}

C2_StarShaped ==
    /\ [][queries' # queries =>
            /\ pc = "inner" /\ i < j /\ j <= Len(valid_results)
            /\ valid_results[i].path \in seeds
            /\ \A g \in GroupIndexes : valid_results[i].path \notin Paths(groups[g])
            /\ valid_results[j].path \notin processed
            /\ queries' = queries \cup {<<valid_results[i].path, valid_results[j].path>>}]_vars
    /\ [](GroupingRan =>
          /\ \A q \in queries : q[1] \in seeds /\ Pos(q[1]) < Pos(q[2])
          /\ \A g \in GroupIndexes :
                /\ Cardinality(Paths(groups[g]) \cap seeds) = 1
                /\ \A m \in Paths(groups[g]) \ seeds :
                      \E sd \in Paths(groups[g]) \cap seeds : <<sd, m>> \in sim_true
          /\ pc = "inner" =>
                \A m \in Paths(current_group) \ {valid_results[i].path} :
                    <<valid_results[i].path, m>> \in sim_true
          /\ \A g \in GroupIndexes : \A b, c \in Paths(groups[g]) \ seeds :
                <<b, c>> \notin queries)

C2_Witness ==
    /\ Done
    /\ \E g \in GroupIndexes : Cardinality(Paths(groups[g]) \ seeds) >= 2
    /\ Cardinality(queries \ sim_true) >= 1

\* C3: the number of oracle comparisons never exceeds 5 x n (n = number of
\* valid records); an oracle call only happens on a step that first advanced
\* the running counter and found it within the budget; once the counter has
\* passed the budget no further oracle call is made, and the run still
\* reaches its reduction.
C3_Budget ==
    /\ [](oracle_calls <= 5 * Len(valid_results))
    /\ [](oracle_calls <= comparison_count)
    /\ [][oracle_calls' # oracle_calls =>
            /\ comparison_count' = comparison_count + 1
            /\ comparison_count' <= 5 * Len(valid_results)]_vars
    /\ [][comparison_count > 5 * Len(valid_results) =>
            oracle_calls' = oracle_calls]_vars
    /\ []((Done /\ GroupingRan) => Paths(valid_results) = UNION {Paths(groups[g]) : g \in GroupIndexes})

C3_Witness ==
    /\ Done
    /\ GroupingRan
    /\ comparison_count > 5 * Len(valid_results)
    /\ oracle_calls = 5 * Len(valid_results)
    /\ Len(groups) = Len(valid_results)

C5_Partition ==
    GroupsBuilt =>
      /\ \A g \in GroupIndexes : groups[g] # <<>>
      /\ \A g \in GroupIndexes : Cardinality(Paths(groups[g])) = Len(groups[g])
      /\ \A g, h \in GroupIndexes : g # h => Paths(groups[g]) \cap Paths(groups[h]) = {}
      /\ UNION {Paths(groups[g]) : g \in GroupIndexes}
            = {r.path : r \in {x \in Range(given) : x.score > 0}}
      /\ \A g \in GroupIndexes : \A k \in 1..Len(groups[g]) : groups[g][k].score > 0

C5_Witness ==
    /\ Done
    /\ comparison_count > max_comparisons
    /\ \E g \in GroupIndexes :
          /\ Len(groups[g]) = 1
          /\ \A q \in queries : q[1] # groups[g][1].path
    /\ \E g \in GroupIndexes : Len(groups[g]) >= 2

\* C6: exactly one member of every group is kept in the output; its score is
\* >= the score of every other member, and among the members with the top
\* score it is the earliest in scan order.
C6_Representative ==
    GroupsBuilt =>
      \A g \in GroupIndexes :
        /\ Cardinality(Kept(g)) = 1
        /\ \A k \in Kept(g) : \A m \in Paths(groups[g]) :
              /\ results[k].score >= ByPath(m).score
              /\ results[k].score = ByPath(m).score => Pos(results[k].path) <= Pos(m)

C6_Witness ==
    /\ Done
    /\ \E g \in GroupIndexes : \E k \in Kept(g) :
          /\ results[k].path \notin seeds
          /\ \E m \in Paths(groups[g]) \ {results[k].path} :
                ByPath(m).score = results[k].score

\* C7: the record kept for a group of size 1 has similar_shots = 1 and no
\* alternatives; the record kept for a group of size k > 1 has
\* similar_shots = k and alternatives = the display names of the k-1 other
\* members, by score descending, equal scores in scan order.
C7_Fields ==
    GroupsBuilt =>
      \A g \in GroupIndexes : \A k \in Kept(g) :
        LET rep == results[k]
            others == Paths(groups[g]) \ {rep.path}
            alt == rep.alternatives
        IN  /\ rep.similar_shots = Cardinality(Paths(groups[g]))
            /\ Len(groups[g]) = 1 => (rep.similar_shots = 1 /\ alt = <<>>)
            /\ Len(alt) = Cardinality(others)
            /\ {alt[x] : x \in 1..Len(alt)} = {File(m) : m \in others}
            /\ \A x, y \in 1..Len(alt) : x < y =>
                  \/ ByFile(alt[x]).score > ByFile(alt[y]).score
                  \/ /\ ByFile(alt[x]).score = ByFile(alt[y]).score
                     /\ Pos(ByFile(alt[x]).path) < Pos(ByFile(alt[y]).path)

C7_Witness ==
    /\ Done
    /\ \E g \in GroupIndexes : Len(groups[g]) = 1
    /\ \E g \in GroupIndexes : \E k \in Kept(g) :
          /\ Len(results[k].alternatives) >= 2
          /\ results[k].path \notin seeds

\* C8: with detection disabled, or fewer than 2 valid records in the list,
\* grouping is a no-op: no oracle call, group_similar_photos returns the list
\* it was given, no record has similar_shots or alternatives, and the output
\* of evaluate_folder is that list sorted by score descending.
NoGrouping == ~detect_duplicates \/ Cardinality({r \in Range(scored) : r.score > 0}) < 2

C9_Original ==
    /\ \A q \in queries : ByPath(q[1]).score > 0 /\ ByPath(q[2]).score > 0
    /\ \A g \in GroupIndexes : \A m \in Paths(groups[g]) : ByPath(m).score > 0
    /\ (Done /\ entry = "evaluate_folder") =>
          /\ \A r \in Range(scored) : r.score = 0 =>
                \E k \in 1..Len(results) : results[k] = r
          /\ \A k, l \in 1..Len(results) :
                (results[k].score = 0 /\ results[l].score > 0) => l < k
          /\ SelectSeq(results, IsFailed) = SelectSeq(scored, IsFailed)

\* C10: a comparison in which the service fails (error status, exception or
\* timeout, unreadable image) leaves the group and the processed set as they
\* were and moves on to the next candidate of the same seed; a run that ends
\* after such a failure returns a list that accounts for every valid record.
C10_FailureIsNotSimilar ==
    /\ [][(oracle_calls' = oracle_calls + 1 /\ last_outcome' \in ErrorOutcomes) =>
            /\ current_group' = current_group
            /\ processed' = processed
            /\ groups' = groups
            /\ pc' = "inner" /\ i' = i /\ j' = j + 1]_vars
    /\ []((last_outcome \in ErrorOutcomes /\ Done) =>
            \A r \in Range(given) : r.score > 0 =>
               Cardinality(Entries(r.path)) + Cardinality(Mentions(r.file)) = 1)

C10_Witness ==
    /\ Done
    /\ oracle.kind = "burst" /\ oracle.fault
    /\ \E q1 \in queries \ sim_true : \E q2 \in sim_true :
          q1[1] = q2[1] /\ Pos(q1[2]) < Pos(q2[2])

\* The answers with status 200 from which no score can be read.
Malformed(resp) ==
    resp.kind \in {"BODY_NOT_JSON", "NO_CHOICES", "NO_BRACES", "BAD_JSON",
                   "NO_SCORE_KEY", "SCORE_NOT_NUMBER", "NO_RESPONSE_FIELD",
                   "RESPONSE_NOT_TEXT", "NO_SCORE_WORD", "SCORE_WORD_NO_NUMBER"}

\* C11 (as stated): for either backend, a status-200 answer from which no
\* score can be read gives a record with score 50 and an explanatory
\* reasoning, never a failed record (score 0), and raises no exception.
C11_Original ==
    /\ \A k \in 1..Len(scored) : Malformed(responses[k]) =>
          /\ scored[k].score_kind = "int"
          /\ scored[k].score = 50
          /\ scored[k].reasoning \in {"could_not_parse", "response_text", "empty_text"}
    /\ pc # "raised"
    /\ pc = "sorted" =>
          \A k \in 1..Len(scored) : Malformed(responses[k]) =>
              \E m \in 1..Len(results) : results[m].path = scored[k].path

\* The paths grouped under a seed placed before s in the scan order.
GroupedEarlier(s) ==
    UNION {Paths(groups[g]) : g \in {h \in GroupIndexes :
              \E sd \in Paths(groups[h]) \cap seeds : Pos(sd) < Pos(s)}}

\* C12: in a grouping run in which no scan was cut by the budget or by the
\* member cap, a seed s is compared with exactly the records that lie after
\* s in the scan order and were in no group when the scan reached them, and
\* the group of s is s plus those of them the oracle judged similar to s.
C12_FullScan ==
    (GroupsBuilt /\ comparison_count = oracle_calls) =>
      /\ sim_true \subseteq queries
      /\ \A q \in queries : q[1] \in seeds
      /\ \A s \in seeds :
            /\ \A c \in Paths(valid_results) :
                  <<s, c>> \in queries <=> (Pos(c) > Pos(s) /\ c \notin GroupedEarlier(s))
            /\ \A g \in GroupIndexes : s \in Paths(groups[g]) =>
                  Paths(groups[g]) = {s} \cup {c \in Paths(valid_results) : <<s, c>> \in sim_true}

\* Order A, B, C with A~B and A not~ C: groups {A, B} and {C}, B and C never compared.
C12_Witness ==
    /\ Done
    /\ Len(valid_results) = 3
    /\ LET a == valid_results[1].path
           b == valid_results[2].path
           c == valid_results[3].path
       IN  /\ queries = {<<a, b>>, <<a, c>>}
           /\ sim_true = {<<a, b>>}
           /\ {Paths(groups[g]) : g \in GroupIndexes} = {{a, b}, {c}}

====
